---- MODULE Spec2Model ----
(***************************************************************************)
(* A model of mypyrun.py: the classification of mypy's diagnostics         *)
(* (Options.get_status), the resolution of a diagnostic's code             *)
(* (get_error_code), of a path's options (get_options), and the loop of    *)
(* run() that reads mypy's output one line at a time.                      *)
(*                                                                         *)
(* Text is modelled as a sequence of tokens.  The tokens that the code     *)
(* looks at one character at a time are tokens of their own: the           *)
(* separator ":", the blank " " and the newline "\n" that strip() takes    *)
(* off, the brackets "[" and "]" of a code.  Every other token stands for  *)
(* a run of characters that holds no separator and no newline and that    *)
(* neither begins nor ends with a blank.                                   *)
(***************************************************************************)
EXTENDS Integers, Sequences, FiniteSets, TLC

\* The number of lines of mypy's output that one run reads.
MaxLines == 3

----------------------------------------------------------------------------
(* Text *)

COLON == ":"
SPACE == " "
NEWLINE == "\n"

Whitespace == {SPACE, NEWLINE}

\* str.strip(): leading and trailing whitespace removed.
RECURSIVE LStrip(_)
LStrip(s) ==
    IF s # <<>> /\ Head(s) \in Whitespace THEN LStrip(Tail(s)) ELSE s

RECURSIVE RStrip(_)
RStrip(s) ==
    IF s # <<>> /\ s[Len(s)] \in Whitespace
    THEN RStrip(SubSeq(s, 1, Len(s) - 1))
    ELSE s

Strip(s) == RStrip(LStrip(s))

\* The place of the first COLON of s, 0 when it has none.
RECURSIVE FirstColon(_, _)
FirstColon(s, i) ==
    IF i > Len(s) THEN 0
    ELSE IF s[i] = COLON THEN i
    ELSE FirstColon(s, i + 1)

\* str.split(':', maxsplit): at most maxsplit splits, at the leftmost
\* separators; the rest of the string is the last part.
RECURSIVE Split(_, _)
Split(s, maxsplit) ==
    LET i == FirstColon(s, 1) IN
    IF maxsplit = 0 \/ i = 0 THEN <<s>>
    ELSE <<SubSeq(s, 1, i - 1)>> \o Split(SubSeq(s, i + 1, Len(s)), maxsplit - 1)

\* str.startswith
StartsWith(s, prefix) ==
    Len(s) >= Len(prefix) /\ SubSeq(s, 1, Len(prefix)) = prefix

----------------------------------------------------------------------------
(* Patterns *)

\* A compiled pattern: the tokens it matches, in which "*" stands for any
\* run of tokens, and whether it must match up to the end of the string
\* (fnmatch.translate ends its regex with \Z and does not anchor its start).
STAR == "*"

RECURSIVE MatchFull(_, _)
MatchFull(toks, s) ==
    IF toks = <<>> THEN s = <<>>
    ELSE IF Head(toks) = STAR
         THEN \E k \in 0..Len(s) : MatchFull(Tail(toks), SubSeq(s, k + 1, Len(s)))
         ELSE s # <<>> /\ Head(s) = Head(toks) /\ MatchFull(Tail(toks), Tail(s))

\* regex.search(s): a match that starts anywhere in s.
RegexSearch(regex, s) ==
    \E i \in 1..(Len(s) + 1) :
        \E j \in (i - 1)..Len(s) :
            /\ regex.to_end => j = Len(s)
            /\ MatchFull(regex.toks, SubSeq(s, i, j))

\* re.compile(x) of a literal x
Regex(toks) == [toks |-> toks, to_end |-> FALSE]

\* re.compile(fnmatch.translate(s))
_glob_to_regex(s) == [toks |-> s, to_end |-> TRUE]

\* match(regex_list, s): some regex of the list is found in s.
match(regex_list, s) ==
    \E n \in 1..Len(regex_list) : RegexSearch(regex_list[n], s)

----------------------------------------------------------------------------
(* Options *)

\* A set of error codes: ALL (None in the code) or a concrete set.
ALL == [all |-> TRUE, codes |-> {}]
CodeSet(S) == [all |-> FALSE, codes |-> S]

\* Options.__init__ with nothing selected, where the code has ALL.
DefaultOptions_empty_select ==
    [select |-> [all |-> FALSE, codes |-> {}],
     ignore |-> CodeSet({}),
     warn |-> CodeSet({}),
     include |-> <<>>,
     exclude |-> <<>>,
     error_filters |-> <<>>,
     warning_filters |-> <<>>,
     show_ignored |-> FALSE,
     add_missing_imports |-> FALSE]

\* Options.__init__
DefaultOptions ==
    [select |-> ALL,
     ignore |-> CodeSet({}),
     warn |-> CodeSet({}),
     include |-> <<>>,
     exclude |-> <<>>,
     error_filters |-> <<>>,
     warning_filters |-> <<>>,
     show_ignored |-> FALSE,
     add_missing_imports |-> FALSE]

\* is_excluded_path that looks at include.
is_excluded_path_include(options, path) == match(options.include, path)

is_excluded_path(options, path) == match(options.exclude, path)

is_included_path(options, path) == match(options.include, path)

\* The status None of the code.
None == "None"

\* get_status with ignore looked at before select.
get_status_ignore_first(options, error_code, msg) ==
    IF options.ignore.all \/ error_code \in options.ignore.codes
    THEN None
    ELSE IF ~options.select.all /\ error_code \in options.select.codes
    THEN (IF ~match(options.error_filters, msg) THEN "error" ELSE None)
    ELSE IF options.warn.all \/ error_code \in options.warn.codes
    THEN (IF ~match(options.warning_filters, msg) THEN "warning" ELSE None)
    ELSE IF options.select.all
    THEN (IF ~match(options.error_filters, msg) THEN "error" ELSE None)
    ELSE None

\* get_status with warn looked at before ignore.
get_status_warn_first(options, error_code, msg) ==
    IF ~options.select.all /\ error_code \in options.select.codes
    THEN (IF ~match(options.error_filters, msg) THEN "error" ELSE None)
    ELSE IF options.warn.all \/ error_code \in options.warn.codes
    THEN (IF ~match(options.warning_filters, msg) THEN "warning" ELSE None)
    ELSE IF options.ignore.all \/ error_code \in options.ignore.codes
    THEN None
    ELSE IF options.select.all
    THEN (IF ~match(options.error_filters, msg) THEN "error" ELSE None)
    ELSE None

\* get_status that falls back to an error when some code is ignored.
get_status_curated(options, error_code, msg) ==
    IF ~options.select.all /\ error_code \in options.select.codes
    THEN (IF ~match(options.error_filters, msg) THEN "error" ELSE None)
    ELSE IF options.ignore.all \/ error_code \in options.ignore.codes
    THEN None
    ELSE IF options.warn.all \/ error_code \in options.warn.codes
    THEN (IF ~match(options.warning_filters, msg) THEN "warning" ELSE None)
    ELSE IF options.select.all \/ options.ignore.codes # {}
    THEN (IF ~match(options.error_filters, msg) THEN "error" ELSE None)
    ELSE None

\* get_status whose last test is "not self.select", which an empty set
\* passes as ALL does.
get_status_falsy_select(options, error_code, msg) ==
    IF ~options.select.all /\ error_code \in options.select.codes
    THEN (IF ~match(options.error_filters, msg) THEN "error" ELSE None)
    ELSE IF options.ignore.all \/ error_code \in options.ignore.codes
    THEN None
    ELSE IF options.warn.all \/ error_code \in options.warn.codes
    THEN (IF ~match(options.warning_filters, msg) THEN "warning" ELSE None)
    ELSE IF options.select.all \/ options.select.codes = {}
    THEN (IF ~match(options.error_filters, msg) THEN "error" ELSE None)
    ELSE None

\* get_status whose warnings pass through error_filters as its errors do.
get_status_warn_error_filters(options, error_code, msg) ==
    IF ~options.select.all /\ error_code \in options.select.codes
    THEN (IF ~match(options.error_filters, msg) THEN "error" ELSE None)
    ELSE IF options.ignore.all \/ error_code \in options.ignore.codes
    THEN None
    ELSE IF options.warn.all \/ error_code \in options.warn.codes
    THEN (IF ~match(options.warning_filters, msg) /\ ~match(options.error_filters, msg)
          THEN "warning" ELSE None)
    ELSE IF options.select.all
    THEN (IF ~match(options.error_filters, msg) THEN "error" ELSE None)
    ELSE None

\* Options.get_status
get_status(options, error_code, msg) ==
    IF ~options.select.all /\ error_code \in options.select.codes
    THEN (IF ~match(options.error_filters, msg) THEN "error" ELSE None)
    ELSE IF options.ignore.all \/ error_code \in options.ignore.codes
    THEN None
    ELSE IF options.warn.all \/ error_code \in options.warn.codes
    THEN (IF ~match(options.warning_filters, msg) THEN "warning" ELSE None)
    ELSE IF options.select.all
    THEN (IF ~match(options.error_filters, msg) THEN "error" ELSE None)
    ELSE None

----------------------------------------------------------------------------
(* Error codes *)

LBRACKET == "["
RBRACKET == "]"

\* The tokens of the model that are words of [a-z0-9\-_]+ .
CodeWords ==
    {"incompatible_arg", "name-defined", "error", "note", "warning",
     "10", "11", "12", "foo"}

\* ERROR_CODE = \[([a-z0-9\-_]+)\]\n$ matches at place i of msg.  The $ is
\* the end of the string, or the place before a newline that ends it.
ErrorCodeAt(msg, i) ==
    /\ i + 3 <= Len(msg)
    /\ msg[i] = LBRACKET
    /\ msg[i + 1] \in CodeWords
    /\ msg[i + 2] = RBRACKET
    /\ msg[i + 3] = NEWLINE
    /\ \/ i + 3 = Len(msg)
       \/ i + 4 = Len(msg) /\ msg[i + 4] = NEWLINE

UNKNOWN == "Unknown"

get_error_code(msg) ==
    LET found == {i \in 1..Len(msg) : ErrorCodeAt(msg, i)} IN
    IF found # {}
    THEN msg[(CHOOSE i \in found : \A k \in found : i <= k) + 1]
    ELSE UNKNOWN

\* The words of [a-zA-Z_][a-zA-Z0-9_]* among the tokens of the model.
Identifiers == {"List", "Foo", "error", "note", "warning", "foo"}

\* The names of typing that the imports are added for (typing.__all__ is
\* where List comes from).
EXTRA_TYPING_TYPES ==
    {"NamedTuple", "Pattern", "Match", "Literal", "TypedDict", "Type", "List"}

NAME_OPEN == "Name \""
NAME_CLOSE == "\" is not defined"
FROM_TYPING_IMPORT == "from typing import"

\* NAMED_DEFINED.search(msg): the names it finds (group 1 of the leftmost).
NamedDefined(msg) ==
    LET found == {i \in 1..Len(msg) :
                     /\ i + 2 <= Len(msg)
                     /\ msg[i] = NAME_OPEN
                     /\ msg[i + 1] \in Identifiers
                     /\ msg[i + 2] = NAME_CLOSE} IN
    IF found = {} THEN {}
    ELSE {msg[(CHOOSE i \in found : \A k \in found : i <= k) + 1]}

\* IMPORT_SUGGESTION.search(msg)
ImportSuggestion(msg) ==
    LET found == {i \in 1..Len(msg) :
                     /\ i + 2 <= Len(msg)
                     /\ msg[i] = FROM_TYPING_IMPORT
                     /\ msg[i + 1] = SPACE
                     /\ msg[i + 2] \in Identifiers} IN
    IF found = {} THEN {}
    ELSE {msg[(CHOOSE i \in found : \A k \in found : i <= k) + 2]}

REVEALED_TYPE == <<"Revealed type is">>

----------------------------------------------------------------------------
(* The options of a path *)

\* FirstIncluding that takes the last of module_options that includes
\* filename.
FirstIncluding_last(filename, mods) ==
    LET hits == {n \in 1..Len(mods) : match(mods[n].options.include, filename)} IN
    IF hits = {} THEN 0
    ELSE CHOOSE n \in hits : \A k \in hits : k <= n

\* The first of module_options that includes filename, 0 (the global
\* options) when none does.
FirstIncluding(filename, mods) ==
    LET hits == {n \in 1..Len(mods) : is_included_path(mods[n].options, filename)} IN
    IF hits = {} THEN 0
    ELSE CHOOSE n \in hits : \A k \in hits : n <= k

\* get_options: what it returns, as the place of the options in
\* module_options (0: global_options) ...
get_options(cache, filename, mods) ==
    IF filename \in DOMAIN cache THEN cache[filename]
    ELSE FirstIncluding(filename, mods)

\* ... and the cache it leaves.
CacheAfter(cache, filename, mods) ==
    IF filename \in DOMAIN cache THEN cache
    ELSE cache @@ (filename :> FirstIncluding(filename, mods))

\* defaultdict(int): d[k] += 1
Incr(d, k) ==
    IF k \in DOMAIN d THEN [d EXCEPT ![k] = @ + 1] ELSE d @@ (k :> 1)

\* defaultdict(set): d[k].add(x)
AddTo(d, k, x) ==
    IF k \in DOMAIN d THEN [d EXCEPT ![k] = @ \cup {x}] ELSE d @@ (k :> {x})

Count(d, k) == IF k \in DOMAIN d THEN d[k] ELSE 0

----------------------------------------------------------------------------
(* The lines of mypy's output that the model reads *)

PathA == <<"a.py">>
PathX == <<"x.py">>

\* The path pkg/a.py: it ends with the characters of a.py.
PathPkgA == <<"pkg/", "a.py">>

ARG == <<"Argument 1 has incompatible type \"int\"; expected \"str\"">>
NAME_LIST == <<NAME_OPEN, "List", NAME_CLOSE>>
NAME_FOO == <<NAME_OPEN, "Foo", NAME_CLOSE>>
CANNOT_FIND == <<"Cannot find module">>

\* The code that mypy --show-error-codes ends a message with.
Tag(code) == <<SPACE, LBRACKET, code, RBRACKET>>

\* path:lineno: status: message
Diag(path, lineno, status, message) ==
    path \o <<COLON, lineno, COLON, SPACE, status, COLON, SPACE>> \o message \o <<NEWLINE>>

\* path: status: message
DiagNoLine(path, status, message) ==
    path \o <<COLON, SPACE, status, COLON, SPACE>> \o message \o <<NEWLINE>>

UntaggedLine == Diag(PathA, "10", "error", ARG)
TaggedLine == Diag(PathA, "10", "error", ARG \o Tag("incompatible_arg"))

\* A line of a status that is neither error nor note.
WarningLine == Diag(PathA, "10", "warning", ARG)

\* An error that mypy gives no line number and whose message has a
\* separator: split(':', 3) reads " error" as its line number and the start
\* of its message as its status.
FOUND_TWICE == <<"Source file found twice under different module names">>
FoundTwiceLine == DiagNoLine(PathA, "error", FOUND_TWICE \o <<COLON, SPACE, "a">>)

Lines ==
    { UntaggedLine,
      TaggedLine,
      Diag(PathA, "11", "error", NAME_LIST \o Tag("name-defined")),
      Diag(PathA, "11", "error", NAME_FOO \o Tag("name-defined")),
      Diag(PathA, "12", "error", CANNOT_FIND \o <<COLON, SPACE, "foo">> \o Tag("incompatible_arg")),
      Diag(PathA, "10", "note", <<"See the docs", SPACE, FROM_TYPING_IMPORT, SPACE, "List">>),
      Diag(PathA, "12", "note", REVEALED_TYPE \o <<SPACE, "builtins.int">>),
      WarningLine,
      FoundTwiceLine,
      DiagNoLine(PathA, "error", ARG \o Tag("incompatible_arg")),
      Diag(PathX, "10", "error", ARG \o Tag("incompatible_arg")),
      Diag(PathX, "10", "note", <<"Use", SPACE, LBRACKET, "foo", RBRACKET, SPACE, "instead">>),
      Diag(PathPkgA, "10", "error", ARG \o Tag("incompatible_arg")),
      <<"Found 1 error in 1 file (checked 1 source file)", NEWLINE>>,
      <<"Success", COLON, SPACE, "no issues found in 1 source file", NEWLINE>> }

----------------------------------------------------------------------------
(* The state of a run *)

VARIABLES
    pc,               \* "start", "read" (the loop of run), "done"
    global_options,   \* run's global_options
    module_options,   \* run's module_options: a sequence of [name, options]
    active_files,     \* run's active_files
    cached_options,   \* _cached_options: path -> place in module_options
    stale_options,    \* _cached_options: what earlier calls of run left in
                      \* it, path -> the options of that call
    matched_error,    \* run's matched_error
    errors_by_type,   \* code -> count
    errors,           \* path -> count
    warnings,         \* path -> count
    filtered,         \* path -> count
    missing_imports,  \* path -> set of names
    last_error,       \* run's last_error
    nread,            \* the number of lines read
    line,             \* the line read last
    emitted,          \* what the last step printed, in order
    new_status,       \* the get_status of the last step, "-" when it made none
    last_primary,     \* what the last diagnostic that was classified got
    imports_added,    \* the files add_typing_imports was called for
    exit_status,      \* what run returns
    proc_wait,        \* what proc.wait() returned, -1 before it has
    resolved,         \* what get_options returned in the last step, -1 when
                      \* the step did not call it
    last_diagnostic,  \* the last line read that was an error or a note
    config_file,      \* main: the sections of the configuration file
    environ,          \* main: MYPYRUN_OPTIONS, a JSON object
    argv,             \* main: the command line
    reported,         \* main: the messages it has printed
    probe             \* a call of get_status: its arguments and what it returned

vars ==
    <<pc, global_options, module_options, active_files, cached_options,
      stale_options, matched_error, errors_by_type, errors, warnings, filtered,
      missing_imports, last_error, nread, line, emitted, new_status,
      last_primary, imports_added, exit_status, proc_wait, resolved,
      last_diagnostic, config_file, environ, argv, reported, probe>>

\* What main reads and what it prints: run changes none of it.
main_vars == <<config_file, environ, argv, reported>>

config == <<global_options, module_options, active_files>>

EmptyDict == [k \in {} |-> 0]

\* matched_error = None, and matched_error = (status, code)
NoMatch == [open |-> FALSE, status |-> None, code |-> ""]
Matched(status, code) == [open |-> TRUE, status |-> status, code |-> code]

\* last_error = None, and last_error = (filename, lineno, msg, error_code)
NoLast == [seen |-> FALSE, filename |-> <<>>, lineno |-> <<>>, msg |-> <<>>, code |-> ""]
Last(filename, lineno, msg, code) ==
    [seen |-> TRUE, filename |-> filename, lineno |-> lineno, msg |-> msg, code |-> code]

\* print(line): a newline follows the line.
Verbatim_newline(text) ==
    [kind |-> "print", filename |-> <<>>, lineno |-> <<>>, status |-> "",
     msg |-> text \o <<NEWLINE>>, is_filtered |-> FALSE, marked |-> FALSE]

\* print(line, end='')
Verbatim(text) ==
    [kind |-> "print", filename |-> <<>>, lineno |-> <<>>, status |-> "",
     msg |-> text, is_filtered |-> FALSE, marked |-> FALSE]

\* report(options, filename, lineno, status, msg, is_filtered): the line
\* is marked (IGNORED, or dark) when show_ignored and is_filtered.
report(options, filename, lineno, status, msg, is_filtered) ==
    [kind |-> "report", filename |-> filename, lineno |-> lineno, status |-> status,
     msg |-> msg, is_filtered |-> is_filtered,
     marked |-> (options.show_ignored /\ is_filtered)]

\* No configuration file, and a command line with no argument.
NoConfigFile == [global |-> <<>>, sections |-> <<>>]
NoArguments == [options |-> "", select |-> <<>>, ignore |-> <<>>, files |-> <<>>]

NoProbe == [code |-> "", msg |-> <<>>, result |-> "-"]
NoPrimary == [seen |-> FALSE, emitted |-> FALSE, status |-> None]

----------------------------------------------------------------------------
(* The configurations that the model runs *)

FILTER_CANNOT_FIND == Regex(CANNOT_FIND)

\* select, ignore, warn and error_filters: the defaults; one code selected;
\* one code a warning and a filter of the errors; and a configuration with
\* an opinion of every code.
Policies ==
    { DefaultOptions,
      [DefaultOptions EXCEPT !.select = CodeSet({"incompatible_arg"})],
      [DefaultOptions EXCEPT !.warn = CodeSet({"name-defined"}),
                             !.error_filters = <<FILTER_CANNOT_FIND>>],
      [DefaultOptions EXCEPT !.select = CodeSet({"incompatible_arg"}),
                             !.ignore = CodeSet({"name-defined"}),
                             !.warn = ALL,
                             !.error_filters = <<FILTER_CANNOT_FIND>>] }

GlobalChoices ==
    { [policy EXCEPT !.exclude = exc, !.show_ignored = shw] :
        policy \in Policies,
        exc \in {<<>>, <<_glob_to_regex(PathX)>>},
        shw \in BOOLEAN }

\* The options of the section [mypyrun-active] of the model.
ActiveOptions == [DefaultOptions EXCEPT !.select = CodeSet({"name-defined"})]

\* module_options and active_files
ModuleChoices ==
    { [mods |-> <<>>, files |-> <<>>],
      [mods |-> <<[name |-> "active", options |-> ActiveOptions]>>, files |-> <<PathA>>] }

ReturnCodes == {0, 1, 2}

----------------------------------------------------------------------------
(* run() *)

Init ==
    /\ pc = "start"
    /\ global_options \in GlobalChoices
    /\ \E mc \in ModuleChoices :
          /\ module_options = mc.mods
          /\ active_files = mc.files
    /\ cached_options = EmptyDict
    /\ stale_options = EmptyDict
    /\ matched_error = NoMatch
    /\ errors_by_type = EmptyDict
    /\ errors = EmptyDict
    /\ warnings = EmptyDict
    /\ filtered = EmptyDict
    /\ missing_imports = EmptyDict
    /\ last_error = NoLast
    /\ nread = 0
    /\ line = <<>>
    /\ emitted = <<>>
    /\ new_status = "-"
    /\ last_primary = NoPrimary
    /\ imports_added = {}
    /\ exit_status = -1
    /\ proc_wait = -1
    /\ resolved = -1
    /\ last_diagnostic = <<>>
    /\ config_file = NoConfigFile
    /\ environ = <<>>
    /\ argv = NoArguments
    /\ reported = <<>>
    /\ probe = NoProbe

\* dict(module_options).get('active'): the place of the last entry named
\* active, 0 when there is none.
ActiveIndex(mods) ==
    LET named == {n \in 1..Len(mods) : mods[n].name = "active"} IN
    IF named = {} THEN 0
    ELSE CHOOSE n \in named : \A k \in named : k <= n

\* module_options once run has given the active options the files of the
\* command line to include.
WithActiveFiles(mods, files) ==
    LET a == ActiveIndex(mods) IN
    IF a # 0 /\ files # <<>>
    THEN [mods EXCEPT ![a].options.include =
              [n \in 1..Len(files) |-> _glob_to_regex(files[n])]]
    ELSE mods

\* run, up to its loop
Start ==
    /\ pc = "start"
    /\ pc' = "read"
    /\ module_options' = WithActiveFiles(module_options, active_files)
    /\ matched_error' = NoMatch
    /\ errors_by_type' = EmptyDict
    /\ errors' = EmptyDict
    /\ warnings' = EmptyDict
    /\ filtered' = EmptyDict
    /\ missing_imports' = EmptyDict
    /\ last_error' = NoLast
    /\ UNCHANGED <<global_options, active_files, cached_options, stale_options, nread, line,
                   emitted, new_status, last_primary, imports_added,
                   exit_status, proc_wait, resolved, last_diagnostic,
                   main_vars, probe>>

\* The two splits of a line: path:lineno:status:msg, and path:status:msg
\* with an empty lineno when the line has no third separator.  ok is FALSE
\* where the code gets the second ValueError.
Parse(l) ==
    LET four == Split(l, 3)
        three == Split(l, 2) IN
    IF Len(four) = 4
    THEN [ok |-> TRUE, filename |-> four[1], lineno |-> four[2],
          status |-> four[3], msg |-> four[4]]
    ELSE IF Len(three) = 3
    THEN [ok |-> TRUE, filename |-> three[1], lineno |-> <<>>,
          status |-> three[2], msg |-> three[3]]
    ELSE [ok |-> FALSE, filename |-> <<>>, lineno |-> <<>>,
          status |-> <<>>, msg |-> <<>>]

\* Fields with the message stripped before its code is looked up.
Fields_strip_first(l) ==
    LET p == Parse(l) IN
    [ok |-> p.ok, filename |-> p.filename, lineno |-> p.lineno,
     error_code |-> get_error_code(Strip(p.msg)),
     status |-> Strip(p.status),
     msg |-> Strip(p.msg)]

\* What the loop has of a line before it looks at the options: the parts
\* of the line, the code of the message as it was split, and then the
\* status and the message stripped.
Fields(l) ==
    LET p == Parse(l) IN
    [ok |-> p.ok, filename |-> p.filename, lineno |-> p.lineno,
     error_code |-> get_error_code(p.msg),
     status |-> Strip(p.status),
     msg |-> Strip(p.msg)]

\* Fields, of every line of the model
FieldsOf == [l \in Lines |-> Fields(l)]

\* What resolved holds when get_options returned an entry of
\* _cached_options that an earlier call of run left.
STALE == -2

\* The options that get_options gives filename.
OptionsAt(n) == IF n = 0 THEN global_options ELSE module_options[n].options

\* _cached_options[filename] is tried first: an entry that an earlier call
\* of run left is returned as it is.
OptionsOf(filename) ==
    IF filename \in DOMAIN stale_options THEN stale_options[filename]
    ELSE OptionsAt(get_options(cached_options, filename, module_options))

\* A step of the loop reads a line.
Reads(l) ==
    /\ pc = "read"
    /\ nread < MaxLines
    /\ nread' = nread + 1
    /\ line' = l
    /\ last_diagnostic' =
          IF FieldsOf[l].ok /\ FieldsOf[l].status \in {<<"error">>, <<"note">>}
          THEN l ELSE last_diagnostic
    /\ UNCHANGED <<pc, config, stale_options, imports_added, exit_status, proc_wait,
                   main_vars, probe>>

\* The line does not split: it is printed as it is.
PassThrough(l) ==
    /\ Reads(l)
    /\ ~FieldsOf[l].ok
    /\ emitted' = <<Verbatim(l)>>
    /\ new_status' = "-"
    /\ resolved' = -1
    /\ UNCHANGED <<cached_options, matched_error, errors_by_type, errors,
                   warnings, filtered, missing_imports, last_error,
                   last_primary>>

\* Excluded that counts the diagnostics of an excluded path and not its
\* other lines.
Excluded_errors_only(l) ==
    LET p == FieldsOf[l] IN
    /\ Reads(l)
    /\ p.ok
    /\ is_excluded_path(global_options, p.filename)
    /\ filtered' = IF Strip(p.status) = <<"error">> THEN Incr(filtered, p.filename)
                    ELSE filtered
    /\ emitted' = <<>>
    /\ new_status' = "-"
    /\ resolved' = -1
    /\ UNCHANGED <<cached_options, matched_error, errors_by_type, errors,
                   warnings, missing_imports, last_error, last_primary>>

\* The path of the line is excluded.
Excluded(l) ==
    LET p == FieldsOf[l] IN
    /\ Reads(l)
    /\ p.ok
    /\ is_excluded_path(global_options, p.filename)
    /\ filtered' = Incr(filtered, p.filename)
    /\ emitted' = <<>>
    /\ new_status' = "-"
    /\ resolved' = -1
    /\ UNCHANGED <<cached_options, matched_error, errors_by_type, errors,
                   warnings, missing_imports, last_error, last_primary>>

\* What every line that splits and is not excluded does before its status
\* is looked at.
Resolves(p) ==
    /\ p.ok
    /\ ~is_excluded_path(global_options, p.filename)
    /\ resolved' = IF p.filename \in DOMAIN stale_options THEN STALE
                    ELSE get_options(cached_options, p.filename, module_options)
    /\ cached_options' = IF p.filename \in DOMAIN stale_options THEN cached_options
                          ELSE CacheAfter(cached_options, p.filename, module_options)
    /\ last_error' = Last(p.filename, p.lineno, p.msg, p.error_code)

\* MatchedAfter that keeps a diagnostic that was not printed.
MatchedAfter_always(options, st, error_code) == Matched(st, error_code)

\* matched_error after a diagnostic of status st and code error_code
MatchedAfter(options, st, error_code) ==
    IF options.show_ignored \/ st # None
    THEN Matched(st, error_code)
    ELSE NoMatch

\* PrimaryOutput that does not look at show_ignored.
PrimaryOutput_no_show(options, p, st) ==
    IF st # None
    THEN <<report(options, p.filename, p.lineno, st, p.msg, FALSE)>>
    ELSE <<>>

\* What the diagnostic prints.
PrimaryOutput(options, p, st) ==
    IF options.show_ignored \/ st # None
    THEN <<report(options, p.filename, p.lineno, IF st # None THEN st ELSE "error",
                  p.msg, st = None)>>
    ELSE <<>>

\* ImportsAfterPrimary that takes every name that is not defined for a name
\* of typing.
ImportsAfterPrimary_any_name(imports, filename, error_code, msg) ==
    IF error_code = "name-defined" /\ NamedDefined(msg) # {}
    THEN AddTo(imports, filename, CHOOSE x \in NamedDefined(msg) : TRUE)
    ELSE imports

\* missing_imports after a diagnostic
ImportsAfterPrimary(imports, filename, error_code, msg) ==
    IF error_code = "name-defined"
       /\ NamedDefined(msg) # {}
       /\ NamedDefined(msg) \subseteq EXTRA_TYPING_TYPES
    THEN AddTo(imports, filename, CHOOSE x \in NamedDefined(msg) : TRUE)
    ELSE imports

\* CountersAfter that counts the code of every diagnostic.
CountersAfter_all_types(st, filename, error_code) ==
    [errors |-> IF st = "error" THEN Incr(errors, filename) ELSE errors,
     errors_by_type |-> Incr(errors_by_type, error_code),
     warnings |-> IF st = "warning" THEN Incr(warnings, filename) ELSE warnings,
     filtered |-> IF st = None THEN Incr(filtered, filename) ELSE filtered]

\* The counters after a diagnostic of status st
CountersAfter(st, filename, error_code) ==
    [errors |-> IF st = "error" THEN Incr(errors, filename) ELSE errors,
     errors_by_type |-> IF st = "error" THEN Incr(errors_by_type, error_code)
                        ELSE errors_by_type,
     warnings |-> IF st = "warning" THEN Incr(warnings, filename) ELSE warnings,
     filtered |-> IF st = None THEN Incr(filtered, filename) ELSE filtered]

\* status == 'error'
Primary(l) ==
    LET p == FieldsOf[l]
        error_code == p.error_code
        msg == p.msg
        st == get_status(OptionsOf(p.filename), error_code, msg) IN
    /\ Reads(l)
    /\ Resolves(p)
    /\ p.status = <<"error">>
    /\ new_status' = st
    /\ LET counted == CountersAfter(st, p.filename, error_code) IN
          /\ errors' = counted.errors
          /\ errors_by_type' = counted.errors_by_type
          /\ warnings' = counted.warnings
          /\ filtered' = counted.filtered
    /\ emitted' = PrimaryOutput(global_options, p, st)
    /\ matched_error' = MatchedAfter(global_options, st, error_code)
    /\ missing_imports' = ImportsAfterPrimary(missing_imports, p.filename, error_code, msg)
    /\ last_primary' = [seen |-> TRUE, emitted |-> emitted' # <<>>, status |-> st]

\* status == 'note' and matched_error is not None
Note(l) ==
    LET p == FieldsOf[l]
        msg == p.msg IN
    /\ Reads(l)
    /\ Resolves(p)
    /\ p.status = <<"note">>
    /\ matched_error.open
    /\ missing_imports' =
          IF ImportSuggestion(msg) # {}
          THEN AddTo(missing_imports, p.filename, CHOOSE x \in ImportSuggestion(msg) : TRUE)
          ELSE missing_imports
    /\ emitted' = <<report(global_options, p.filename, p.lineno, "note", msg,
                           matched_error.status = None)>>
    /\ new_status' = "-"
    /\ UNCHANGED <<matched_error, errors_by_type, errors, warnings, filtered,
                   last_primary>>

\* Revealed that reports the note as the note of a diagnostic is reported:
\* as filtered when matched_error has no status.
Revealed_as_matched(l) ==
    LET p == FieldsOf[l]
        msg == p.msg IN
    /\ Reads(l)
    /\ Resolves(p)
    /\ p.status = <<"note">>
    /\ ~matched_error.open
    /\ StartsWith(msg, REVEALED_TYPE)
    /\ emitted' = <<report(global_options, p.filename, p.lineno, "note", msg,
                           matched_error.status = None)>>
    /\ new_status' = "-"
    /\ UNCHANGED <<matched_error, errors_by_type, errors, warnings, filtered,
                   missing_imports, last_primary>>

\* status == 'note' and msg.startswith(REVEALED_TYPE)
Revealed(l) ==
    LET p == FieldsOf[l]
        msg == p.msg IN
    /\ Reads(l)
    /\ Resolves(p)
    /\ p.status = <<"note">>
    /\ ~matched_error.open
    /\ StartsWith(msg, REVEALED_TYPE)
    /\ emitted' = <<report(global_options, p.filename, p.lineno, "note", msg, FALSE)>>
    /\ new_status' = "-"
    /\ UNCHANGED <<matched_error, errors_by_type, errors, warnings, filtered,
                   missing_imports, last_primary>>

\* No branch of the loop takes the line.
Dropped(l) ==
    LET p == FieldsOf[l]
        msg == p.msg IN
    /\ Reads(l)
    /\ Resolves(p)
    /\ p.status # <<"error">>
    /\ ~(p.status = <<"note">> /\ matched_error.open)
    /\ ~(p.status = <<"note">> /\ StartsWith(msg, REVEALED_TYPE))
    /\ emitted' = <<>>
    /\ new_status' = "-"
    /\ UNCHANGED <<matched_error, errors_by_type, errors, warnings, filtered,
                   missing_imports, last_primary>>

\* sum(d.values())
RECURSIVE Total(_)
Total(d) ==
    IF DOMAIN d = {} THEN 0
    ELSE LET k == CHOOSE x \in DOMAIN d : TRUE IN
         d[k] + Total([x \in DOMAIN d \ {k} |-> d[x]])

\* The statistics that run prints when the output of mypy has ended.
Stats ==
    [kind |-> "stats", filename |-> <<>>, lineno |-> <<>>, status |-> "",
     msg |-> <<Total(errors), Total(warnings), Total(filtered)>>,
     is_filtered |-> FALSE, marked |-> FALSE]

SEVERE == <<"Warning: A severe error occurred">>

\* print(msg), of the banner
Banner == Verbatim(SEVERE \o <<NEWLINE>>)

\* SevereOutput that prints last_error as it was classified: not at all when
\* it was not printed in the loop.
SevereOutput_as_classified(returncode) ==
    IF returncode > 1
    THEN <<Banner>> \o
         (IF last_error.seen /\ last_primary.seen /\ last_primary.emitted
          THEN <<report(global_options, last_error.filename, last_error.lineno,
                        "error", last_error.msg, FALSE)>>
          ELSE <<>>)
    ELSE <<>>

\* What run prints for a returncode above 1.
SevereOutput(returncode) ==
    IF returncode > 1
    THEN <<Banner>> \o
         (IF last_error.seen
          THEN <<report(global_options, last_error.filename, last_error.lineno,
                        "error", last_error.msg, FALSE)>>
          ELSE <<>>)
    ELSE <<>>

\* ExitStatus that returns what mypy returned.
ExitStatus_upstream(returncode) == returncode

\* What run returns.
ExitStatus(returncode) ==
    IF returncode > 1 THEN returncode
    ELSE IF DOMAIN errors # {} THEN returncode ELSE 0

\* The output of mypy ends: run, after its loop.
Finish(returncode) ==
    /\ pc = "read"
    /\ pc' = "done"
    /\ emitted' = <<Stats>> \o SevereOutput(returncode)
    /\ imports_added' = IF global_options.add_missing_imports
                        THEN DOMAIN missing_imports ELSE {}
    /\ proc_wait' = returncode
    /\ exit_status' = ExitStatus(returncode)
    /\ new_status' = "-"
    /\ resolved' = -1
    /\ UNCHANGED <<config, cached_options, stale_options, matched_error, errors_by_type,
                   errors, warnings, filtered, missing_imports, last_error,
                   nread, line, last_primary, last_diagnostic, main_vars,
                   probe>>

Next ==
    \/ Start
    \/ \E l \in Lines : PassThrough(l)
    \/ \E l \in Lines : Excluded(l)
    \/ \E l \in Lines : Primary(l)
    \/ \E l \in Lines : Note(l)
    \/ \E l \in Lines : Revealed(l)
    \/ \E l \in Lines : Dropped(l)
    \/ \E returncode \in ReturnCodes : Finish(returncode)

Spec == Init /\ [][Next]_vars

----------------------------------------------------------------------------
(* run with several sections of options: every order of every subset of *)
(* [mypyrun-tests], [mypyrun-x] and [mypyrun-active]                     *)

\* [mypyrun-tests]: include = a.py, select = incompatible_arg
TestsOptions ==
    [DefaultOptions EXCEPT !.include = <<_glob_to_regex(PathA)>>,
                           !.select = CodeSet({"incompatible_arg"})]

\* [mypyrun-x]: include = x.py, warn = *
XOptions ==
    [DefaultOptions EXCEPT !.include = <<_glob_to_regex(PathX)>>,
                           !.warn = ALL]

Sections ==
    { [name |-> "tests", options |-> TestsOptions],
      [name |-> "x", options |-> XOptions],
      [name |-> "active", options |-> ActiveOptions] }

\* module_options: the sections that were read, in the order they were.
Registries ==
    { mods \in UNION {[1..n -> Sections] : n \in 0..Cardinality(Sections)} :
        \A i, j \in DOMAIN mods : mods[i] = mods[j] => i = j }

InitProfiles ==
    /\ pc = "start"
    /\ \/ /\ global_options = DefaultOptions
          /\ module_options \in Registries
          /\ active_files \in {<<>>, <<PathA>>}
       \/ /\ global_options = [DefaultOptions EXCEPT !.exclude = <<_glob_to_regex(PathX)>>]
          /\ module_options = <<[name |-> "tests", options |-> TestsOptions],
                                [name |-> "active", options |-> ActiveOptions]>>
          /\ active_files = <<PathA, PathX>>
    /\ cached_options = EmptyDict
    /\ stale_options = EmptyDict
    /\ matched_error = NoMatch
    /\ errors_by_type = EmptyDict
    /\ errors = EmptyDict
    /\ warnings = EmptyDict
    /\ filtered = EmptyDict
    /\ missing_imports = EmptyDict
    /\ last_error = NoLast
    /\ nread = 0
    /\ line = <<>>
    /\ emitted = <<>>
    /\ new_status = "-"
    /\ last_primary = NoPrimary
    /\ imports_added = {}
    /\ exit_status = -1
    /\ proc_wait = -1
    /\ resolved = -1
    /\ last_diagnostic = <<>>
    /\ config_file = NoConfigFile
    /\ environ = <<>>
    /\ argv = NoArguments
    /\ reported = <<>>
    /\ probe = NoProbe

SpecProfiles == InitProfiles /\ [][Next]_vars

----------------------------------------------------------------------------
(* run called again and again by one process, as a library *)

\* The module_options that a call of run is given: none, and
\* [mypyrun-tests].
LibraryRegistries ==
    { <<>>,
      <<[name |-> "tests", options |-> TestsOptions]>> }

\* _cached_options when a call of run has returned: nothing deletes its
\* entries, and each holds the options that get_options stored.
Carried ==
    [path \in DOMAIN stale_options \cup DOMAIN cached_options |->
        IF path \in DOMAIN stale_options THEN stale_options[path]
        ELSE OptionsAt(cached_options[path])]

InitLibrary ==
    /\ pc = "start"
    /\ global_options = [DefaultOptions EXCEPT !.exclude = <<_glob_to_regex(PathX)>>]
    /\ module_options \in LibraryRegistries
    /\ active_files = <<>>
    /\ cached_options = EmptyDict
    /\ stale_options = EmptyDict
    /\ matched_error = NoMatch
    /\ errors_by_type = EmptyDict
    /\ errors = EmptyDict
    /\ warnings = EmptyDict
    /\ filtered = EmptyDict
    /\ missing_imports = EmptyDict
    /\ last_error = NoLast
    /\ nread = 0
    /\ line = <<>>
    /\ emitted = <<>>
    /\ new_status = "-"
    /\ last_primary = NoPrimary
    /\ imports_added = {}
    /\ exit_status = -1
    /\ proc_wait = -1
    /\ resolved = -1
    /\ last_diagnostic = <<>>
    /\ config_file = NoConfigFile
    /\ environ = <<>>
    /\ argv = NoArguments
    /\ reported = <<>>
    /\ probe = NoProbe

\* run has returned and the process calls it again, with the module_options
\* mods: the locals of the call that returned are gone, its output is no
\* longer looked at, and _cached_options is what that call left.
Again(mods) ==
    /\ pc = "done"
    /\ pc' = "start"
    /\ module_options' = mods
    /\ stale_options' = Carried
    /\ cached_options' = EmptyDict
    /\ matched_error' = NoMatch
    /\ errors_by_type' = EmptyDict
    /\ errors' = EmptyDict
    /\ warnings' = EmptyDict
    /\ filtered' = EmptyDict
    /\ missing_imports' = EmptyDict
    /\ last_error' = NoLast
    /\ nread' = 0
    /\ line' = <<>>
    /\ emitted' = <<>>
    /\ new_status' = "-"
    /\ last_primary' = NoPrimary
    /\ imports_added' = {}
    /\ exit_status' = -1
    /\ proc_wait' = -1
    /\ resolved' = -1
    /\ last_diagnostic' = <<>>
    /\ UNCHANGED <<global_options, active_files, main_vars, probe>>

\* The options of a run that may add the imports: with and without
\* add_missing_imports, with every code an error and with name-defined
\* ignored, with no path excluded and with a.py excluded.
ImportChoices ==
    { [policy EXCEPT !.add_missing_imports = amp, !.exclude = exc] :
        policy \in {DefaultOptions,
                    [DefaultOptions EXCEPT !.ignore = CodeSet({"name-defined"})]},
        amp \in BOOLEAN,
        exc \in {<<>>, <<_glob_to_regex(PathA)>>} }

InitImports ==
    /\ pc = "start"
    /\ global_options \in ImportChoices
    /\ module_options = <<>>
    /\ active_files = <<>>
    /\ cached_options = EmptyDict
    /\ stale_options = EmptyDict
    /\ matched_error = NoMatch
    /\ errors_by_type = EmptyDict
    /\ errors = EmptyDict
    /\ warnings = EmptyDict
    /\ filtered = EmptyDict
    /\ missing_imports = EmptyDict
    /\ last_error = NoLast
    /\ nread = 0
    /\ line = <<>>
    /\ emitted = <<>>
    /\ new_status = "-"
    /\ last_primary = NoPrimary
    /\ imports_added = {}
    /\ exit_status = -1
    /\ proc_wait = -1
    /\ resolved = -1
    /\ last_diagnostic = <<>>
    /\ config_file = NoConfigFile
    /\ environ = <<>>
    /\ argv = NoArguments
    /\ reported = <<>>
    /\ probe = NoProbe

SpecImports == InitImports /\ [][Next]_vars

NextLibrary ==
    \/ \E mods \in LibraryRegistries : Again(mods)
    \/ Next

SpecLibrary == InitLibrary /\ [][NextLibrary]_vars

----------------------------------------------------------------------------
(* main(): the options of the configuration file, of MYPYRUN_OPTIONS and *)
(* of the command line, and what main checks before it calls run         *)

PARSING_FAIL == 100

\* The status of a Python process that ends with an exception that nothing
\* caught.
UNCAUGHT == 1

COMMA == ","

\* str.split(',')
RECURSIVE SplitComma(_)
SplitComma(s) ==
    LET commas == {i \in 1..Len(s) : s[i] = COMMA} IN
    IF commas = {} THEN <<s>>
    ELSE LET i == CHOOSE x \in commas : \A y \in commas : x <= y IN
         <<SubSeq(s, 1, i - 1)>> \o SplitComma(SubSeq(s, i + 1, Len(s)))

\* [o.strip() for o in options if o.strip()]
RECURSIVE StripEach(_)
StripEach(items) ==
    IF items = <<>> THEN <<>>
    ELSE (IF Strip(Head(items)) # <<>> THEN <<Strip(Head(items))>> ELSE <<>>)
         \o StripEach(Tail(items))

\* _parse_multi_options(options), of a string and of a list of strings
_parse_multi_options(options, is_string) ==
    StripEach(IF is_string THEN SplitComma(options) ELSE options)

\* _error_set(s).  A code is an item of one token.
_error_set(s, is_string) ==
    LET items == _parse_multi_options(s, is_string) IN
    IF \E n \in DOMAIN items : items[n] = <<STAR>> THEN ALL
    ELSE CodeSet({Head(items[n]) : n \in DOMAIN items})

\* _glob_list(s)
_glob_list(s, is_string) ==
    LET items == _parse_multi_options(s, is_string) IN
    [n \in DOMAIN items |-> _glob_to_regex(items[n])]

\* config_types[key](s), for the keys of config_types that the model has
ConfigTypeKeys == {"select", "ignore", "warn", "include", "exclude"}

config_types(key, s, is_string) ==
    IF key \in {"select", "ignore", "warn"}
    THEN _error_set(s, is_string)
    ELSE _glob_list(s, is_string)

\* The other attributes of Options that the model has: their default is a
\* bool.  Every other key gets None from getattr(template, key, None).
BoolOptions == {"show_ignored", "add_missing_imports"}

GLOBAL_ONLY_OPTIONS ==
    {"color", "show_ignored", "daemon", "exclude", "mypy_executable",
     "add_missing_imports"}

PER_MODULE_OPTIONS ==
    {"select", "ignore", "warn", "include", "error_filters", "warning_filters"}

\* RawConfigParser.getboolean: the words it knows
BOOLEAN_STATES == ("yes" :> TRUE) @@ ("true" :> TRUE) @@ ("no" :> FALSE) @@ ("false" :> FALSE)

\* The messages of main and of its parsers
Unrecognized(key) == [what |-> "Unrecognized option", key |-> key]
NotABoolean(key) == [what |-> "Not a boolean", key |-> key]
PerModuleOnly(key) == [what |-> "Per-module sections should only specify per-module flags", key |-> key]
NoSuchSection(key) == [what |-> "Configuration section does not exist", key |-> key]
SelectedAndIgnored == [what |-> "The same option must not be both selected and ignored", key |-> ""]
Traceback == [what |-> "Traceback (most recent call last)", key |-> ""]

\* ParsedKey that says nothing of a key that is no option.
ParsedKey_silent(before, key, value) ==
    IF key \in ConfigTypeKeys
    THEN [before EXCEPT !.results = (key :> config_types(key, value, TRUE)) @@ @]
    ELSE IF key \notin BoolOptions
    THEN before
    ELSE IF Len(value) = 1 /\ value[1] \in DOMAIN BOOLEAN_STATES
    THEN [before EXCEPT !.results = (key :> BOOLEAN_STATES[value[1]]) @@ @]
    ELSE [before EXCEPT !.printed = Append(@, NotABoolean(key))]

\* ConfigFileOptionsParser._parse_section, for one key of the section:
\* the results and what was printed, after those of the keys before it.
ParsedKey(before, key, value) ==
    IF key \in ConfigTypeKeys
    THEN [before EXCEPT !.results = (key :> config_types(key, value, TRUE)) @@ @]
    ELSE IF key \notin BoolOptions
    THEN [before EXCEPT !.printed = Append(@, Unrecognized(key))]
    ELSE IF Len(value) = 1 /\ value[1] \in DOMAIN BOOLEAN_STATES
    THEN [before EXCEPT !.results = (key :> BOOLEAN_STATES[value[1]]) @@ @]
    ELSE [before EXCEPT !.printed = Append(@, NotABoolean(key))]

\* ConfigFileOptionsParser._parse_section: the results, and what it printed.
\* A section holds a key once; its keys are read in their order.
RECURSIVE _parse_section(_)
_parse_section(section) ==
    IF section = <<>> THEN [results |-> EmptyDict, printed |-> <<>>]
    ELSE ParsedKey(_parse_section(SubSeq(section, 1, Len(section) - 1)),
                   section[Len(section)].key, section[Len(section)].value)

\* {k: v for k, v in updates.items() if k in keys}
Restrict(updates, keys) == [k \in DOMAIN updates \cap keys |-> updates[k]]

\* ConfigFileOptionsParser.extract_updates, for a section [mypyrun-<globs>]:
\* what it yields, an (updates, glob) for every glob of the name, and what
\* it printed.
SectionUpdates(section) ==
    LET parsed == _parse_section(section.entries)
        global_only == DOMAIN parsed.results \cap GLOBAL_ONLY_OPTIONS
        updates == IF global_only # {}
                   THEN Restrict(parsed.results, PER_MODULE_OPTIONS)
                   ELSE parsed.results
        globs == SplitComma(section.name) IN
    [yields |-> [n \in DOMAIN globs |->
                    [updates |-> updates, global |-> FALSE, key |-> Head(globs[n])]],
     printed |-> parsed.printed \o
                 (IF global_only # {}
                  THEN <<PerModuleOnly(CHOOSE k \in global_only : TRUE)>> ELSE <<>>)]

\* What two parts of extract_updates yield and print, one after the other.
Both(first, rest) ==
    [yields |-> first.yields \o rest.yields,
     printed |-> first.printed \o rest.printed]

\* ConfigFileOptionsParser.extract_updates: the section [mypyrun], then the
\* sections [mypyrun-<globs>] in the order of the file.
RECURSIVE SectionsUpdates(_)
SectionsUpdates(sections) ==
    IF sections = <<>> THEN [yields |-> <<>>, printed |-> <<>>]
    ELSE Both(SectionUpdates(Head(sections)), SectionsUpdates(Tail(sections)))

GlobalUpdates(parsed) ==
    [yields |-> <<[updates |-> parsed.results, global |-> TRUE, key |-> ""]>>,
     printed |-> parsed.printed]

ConfigFileUpdates(file) ==
    Both(GlobalUpdates(_parse_section(file.global)), SectionsUpdates(file.sections))

\* What `if` makes of a value of the JSON object that is stored as it is.
Truthy(entry) ==
    CASE entry.type = "bool" -> entry.value = <<"true">>
      [] entry.type = "int" -> entry.value # <<"0">>
      [] OTHER -> entry.value # <<>>

\* JsonOptionsParser.extract_updates: the results, what it printed, and
\* whether a conversion of config_types raised (it iterates its argument
\* when that is not a string: a number raises TypeError).
JsonKey(before, entry) ==
    IF before.raised THEN before
    ELSE IF entry.key \in ConfigTypeKeys
    THEN (IF entry.type = "str"
          THEN [before EXCEPT !.results =
                   (entry.key :> config_types(entry.key, entry.value, TRUE)) @@ @]
          ELSE [before EXCEPT !.raised = TRUE])
    ELSE IF entry.key \notin BoolOptions
    THEN [before EXCEPT !.printed = Append(@, Unrecognized(entry.key))]
    ELSE [before EXCEPT !.results = (entry.key :> Truthy(entry)) @@ @]

RECURSIVE JsonUpdates(_)
JsonUpdates(json_data) ==
    IF json_data = <<>>
    THEN [results |-> EmptyDict, printed |-> <<>>, raised |-> FALSE]
    ELSE JsonKey(JsonUpdates(SubSeq(json_data, 1, Len(json_data) - 1)),
                 json_data[Len(json_data)])

\* setattr(opt, k, v) for every k, v of updates
Updated(opt, updates) ==
    [k \in DOMAIN opt |-> IF k \in DOMAIN updates THEN updates[k] ELSE opt[k]]

\* BaseOptionsParser.apply: options and module_options after the updates
\* that extract_updates yields.
RECURSIVE apply(_, _, _)
apply(options, mods, yields) ==
    IF yields = <<>> THEN [options |-> options, module_options |-> mods]
    ELSE LET updates == Head(yields).updates IN
         IF DOMAIN updates = {}
         THEN apply(options, mods, Tail(yields))
         ELSE IF Head(yields).global
         THEN apply(Updated(options, updates), mods, Tail(yields))
         ELSE apply(options,
                    Append(mods, [name |-> Head(yields).key,
                                  options |-> Updated(DefaultOptions, updates)]),
                    Tail(yields))

\* ArgparseOptionsParser.apply: --select and --ignore, when they are given
ArgparseUpdates(arguments) ==
    (IF arguments.select # <<>>
     THEN "select" :> config_types("select", arguments.select, FALSE)
     ELSE EmptyDict)
    @@ (IF arguments.ignore # <<>>
        THEN "ignore" :> config_types("ignore", arguments.ignore, FALSE)
        ELSE EmptyDict)

\* dict(module_options).get(name): the place of the last entry of that
\* name, 0 when there is none.
NamedIndex(mods, name) ==
    LET named == {n \in 1..Len(mods) : mods[n].name = name} IN
    IF named = {} THEN 0
    ELSE CHOOSE n \in named : \A k \in named : k <= n

\* `if options.select and options.ignore`, and the overlap
Overlap(options) ==
    IF /\ ~options.select.all /\ options.select.codes # {}
       /\ ~options.ignore.all /\ options.ignore.codes # {}
    THEN options.select.codes \cap options.ignore.codes
    ELSE {}

\* What main has when it ends before run, and when it calls run: whether it
\* exits, the status it exits with, its options and module_options, and
\* what it printed.
Exits(status, options, mods, printed) ==
    [exits |-> TRUE, status |-> status, options |-> options,
     module_options |-> mods, printed |-> printed]

CallsRun(options, mods, printed) ==
    [exits |-> FALSE, status |-> -1, options |-> options,
     module_options |-> mods, printed |-> printed]

\* main: `if options.select and options.ignore`, and the call of run
MainOverlap(options, mods, printed) ==
    IF Overlap(options) # {}
    THEN Exits(PARSING_FAIL, options, mods, printed \o <<SelectedAndIgnored>>)
    ELSE CallsRun(options, mods, printed)

\* MainOverride that keeps the options of [mypyrun] when no section has the
\* name.
MainOverride_keeps_global(options, mods, printed, name, override) ==
    IF name = "" \/ override = 0 THEN MainOverlap(options, mods, printed)
    ELSE MainOverlap(Updated(options, Restrict(mods[override].options, PER_MODULE_OPTIONS)),
                     mods, printed)

\* main: `if dummy.options`, with override the place in module_options of
\* the section that --options names
MainOverride(options, mods, printed, name, override) ==
    IF name = "" THEN MainOverlap(options, mods, printed)
    ELSE IF override = 0
    THEN Exits(PARSING_FAIL, options, mods, printed \o <<NoSuchSection(name)>>)
    ELSE MainOverlap(Updated(options, Restrict(mods[override].options, PER_MODULE_OPTIONS)),
                     mods, printed)

\* main: the JSON object and the command line applied after the file
MainParsers(after_file, from_json, printed, arguments) ==
    IF from_json.raised
    THEN Exits(UNCAUGHT, after_file.options, after_file.module_options,
               printed \o from_json.printed \o <<Traceback>>)
    ELSE MainOverride(
            Updated(apply(after_file.options, after_file.module_options,
                          <<[updates |-> from_json.results, global |-> TRUE,
                             key |-> ""]>>).options,
                    ArgparseUpdates(arguments)),
            after_file.module_options,
            printed \o from_json.printed,
            arguments.options,
            NamedIndex(after_file.module_options, arguments.options))

\* main: the parsers in their order, ConfigFileOptionsParser first
MainFile(from_file, json_data, arguments) ==
    MainParsers(apply(DefaultOptions, <<>>, from_file.yields),
                JsonUpdates(json_data), from_file.printed, arguments)

\* main, up to its call of run
MainResult(file, json_data, arguments) ==
    MainFile(ConfigFileUpdates(file), json_data, arguments)

\* main: it exits, or it calls run(dummy.files, options, module_options).
Main ==
    \E result \in {MainResult(config_file, environ, argv)} :
        /\ pc = "main"
        /\ pc' = IF result.exits THEN "exit" ELSE "start"
        /\ exit_status' = result.status
        /\ global_options' = result.options
        /\ module_options' = result.module_options
        /\ active_files' = argv.files
        /\ reported' = result.printed
        /\ UNCHANGED <<cached_options, stale_options, matched_error, errors_by_type, errors,
                       warnings, filtered, missing_imports, last_error, nread,
                       line, emitted, new_status, last_primary, imports_added,
                       proc_wait, resolved, last_diagnostic, config_file,
                       environ, argv, probe>>

NextMain == Main \/ Next

\* key = value, of a section of the configuration file
Entry(key, value) == [key |-> key, value |-> value]

\* The configuration files of the model: none; a [mypyrun] with a key that
\* is no option and a word that is no boolean; a [mypyrun] that selects and
\* ignores a code; a [mypyrun-tests] that selects and ignores a code; and a
\* [mypyrun] that excludes x.py with a [mypyrun-tests,active] that holds an
\* option of [mypyrun] only.
ConfigFiles ==
    { NoConfigFile,
      [global |-> <<Entry("select", <<"incompatible_arg">>),
                    Entry("colour", <<"1">>),
                    Entry("show_ignored", <<"maybe">>)>>,
       sections |-> <<>>],
      [global |-> <<Entry("select", <<"incompatible_arg">>),
                    Entry("ignore", <<"incompatible_arg", COMMA, SPACE, "name-defined">>)>>,
       sections |-> <<>>],
      [global |-> <<>>,
       sections |-> <<[name |-> <<"tests">>,
                       entries |-> <<Entry("include", PathA),
                                     Entry("select", <<"name-defined">>),
                                     Entry("ignore", <<"name-defined">>)>>]>>],
      [global |-> <<Entry("exclude", PathX), Entry("show_ignored", <<"yes">>)>>,
       sections |-> <<[name |-> <<"tests", COMMA, "active">>,
                       entries |-> <<Entry("select", <<STAR>>),
                                     Entry("ignore", <<"name-defined">>),
                                     Entry("show_ignored", <<"yes">>)>>]>>] }

\* "key": value, of the JSON object of MYPYRUN_OPTIONS
JsonEntry(key, type, value) == [key |-> key, type |-> type, value |-> value]

\* MYPYRUN_OPTIONS: not set; an object with a string for warn, a key that is
\* no option and a string for show_ignored; an object with a number for
\* select.
Environs ==
    { <<>>,
      <<JsonEntry("warn", "str", <<"name-defined">>),
        JsonEntry("colour", "int", <<"1">>),
        JsonEntry("show_ignored", "str", <<"no">>)>>,
      <<JsonEntry("select", "int", <<"5">>)>> }

\* The command lines: --options with the name of a section, of no section,
\* or not given; --ignore given or not; and --files a.py.
CommandLines ==
    { [options |-> name, select |-> <<>>, ignore |-> ign, files |-> <<PathA>>] :
        name \in {"", "tests", "missing"},
        ign \in {<<>>, <<<<"incompatible_arg">>>>} }

InitMain ==
    /\ pc = "main"
    /\ config_file \in ConfigFiles
    /\ environ \in Environs
    /\ argv \in CommandLines
    /\ reported = <<>>
    /\ global_options = DefaultOptions
    /\ module_options = <<>>
    /\ active_files = <<>>
    /\ cached_options = EmptyDict
    /\ stale_options = EmptyDict
    /\ matched_error = NoMatch
    /\ errors_by_type = EmptyDict
    /\ errors = EmptyDict
    /\ warnings = EmptyDict
    /\ filtered = EmptyDict
    /\ missing_imports = EmptyDict
    /\ last_error = NoLast
    /\ nread = 0
    /\ line = <<>>
    /\ emitted = <<>>
    /\ new_status = "-"
    /\ last_primary = NoPrimary
    /\ imports_added = {}
    /\ exit_status = -1
    /\ proc_wait = -1
    /\ resolved = -1
    /\ last_diagnostic = <<>>
    /\ probe = NoProbe

SpecMain == InitMain /\ [][NextMain]_vars

----------------------------------------------------------------------------
(* get_status on its own: every profile of two codes, called with every *)
(* code and message                                                      *)

FILTER_NOT_DEFINED == Regex(<<NAME_CLOSE>>)

CodeSets == {ALL} \cup {CodeSet(S) : S \in SUBSET {"incompatible_arg", "name-defined"}}

StatusProfiles ==
    { [DefaultOptions EXCEPT !.select = sel, !.ignore = ign, !.warn = wrn,
                             !.error_filters = ef, !.warning_filters = wf] :
        sel \in CodeSets, ign \in CodeSets, wrn \in CodeSets,
        ef \in {<<>>, <<FILTER_CANNOT_FIND>>},
        wf \in {<<>>, <<FILTER_NOT_DEFINED>>} }

StatusCodes == {"incompatible_arg", "name-defined", UNKNOWN}

\* A message that no filter matches, one for each filter, and one for both.
StatusMessages ==
    { ARG,
      CANNOT_FIND \o <<COLON, SPACE, "foo">>,
      NAME_LIST,
      CANNOT_FIND \o <<COLON, SPACE>> \o NAME_LIST }

InitStatus ==
    /\ pc = "start"
    /\ global_options \in StatusProfiles
    /\ module_options = <<>>
    /\ active_files = <<>>
    /\ cached_options = EmptyDict
    /\ stale_options = EmptyDict
    /\ matched_error = NoMatch
    /\ errors_by_type = EmptyDict
    /\ errors = EmptyDict
    /\ warnings = EmptyDict
    /\ filtered = EmptyDict
    /\ missing_imports = EmptyDict
    /\ last_error = NoLast
    /\ nread = 0
    /\ line = <<>>
    /\ emitted = <<>>
    /\ new_status = "-"
    /\ last_primary = NoPrimary
    /\ imports_added = {}
    /\ exit_status = -1
    /\ proc_wait = -1
    /\ resolved = -1
    /\ last_diagnostic = <<>>
    /\ config_file = NoConfigFile
    /\ environ = <<>>
    /\ argv = NoArguments
    /\ reported = <<>>
    /\ probe = NoProbe

\* options.get_status(error_code, msg), of the global options
Classify(error_code, msg) ==
    /\ probe' = [code |-> error_code, msg |-> msg,
                 result |-> get_status(global_options, error_code, msg)]
    /\ UNCHANGED <<pc, config, cached_options, stale_options, matched_error, errors_by_type,
                   errors, warnings, filtered, missing_imports, last_error,
                   nread, line, emitted, new_status, last_primary,
                   imports_added, exit_status, proc_wait, resolved,
                   last_diagnostic, main_vars>>

NextStatus ==
    \E error_code \in StatusCodes : \E msg \in StatusMessages : Classify(error_code, msg)

SpecStatus == InitStatus /\ [][NextStatus]_vars

----------------------------------------------------------------------------
(* Claims about get_status, under SpecStatus *)

\* get_status was called.
Probed == probe.result # "-"

\* The message of the call matches a pattern of error_filters.
ErrorFiltered == \E n \in 1..Len(global_options.error_filters) :
                    RegexSearch(global_options.error_filters[n], probe.msg)

\* error, or suppressed when error_filters match the message
ErrorUnlessFiltered == probe.result = (IF ErrorFiltered THEN None ELSE "error")

Covers(codes, c) == codes.all \/ c \in codes.codes

\* C1, as claimed: when select is ALL or holds the code, get_status is
\* 'error', or suppressed when error_filters match the message, whatever
\* ignore and warn hold.
C1_SelectAlwaysWins ==
    (Probed /\ Covers(global_options.select, probe.code)) => ErrorUnlessFiltered

\* C1, amended: a code that a concrete select holds is 'error' (suppressed
\* when error_filters match the message) whatever ignore and warn hold; under
\* select ALL that is the result of the codes that neither ignore nor warn
\* covers.
C1_ConcreteSelectWins ==
    (/\ Probed
     /\ \/ ~global_options.select.all /\ probe.code \in global_options.select.codes
        \/ /\ global_options.select.all
           /\ ~Covers(global_options.ignore, probe.code)
           /\ ~Covers(global_options.warn, probe.code))
    => ErrorUnlessFiltered

\* A selected code that ignore and warn hold too is an error.
C1_Witness ==
    /\ Probed
    /\ ~global_options.select.all
    /\ probe.code \in global_options.select.codes
    /\ probe.code \in global_options.ignore.codes
    /\ probe.code \in global_options.warn.codes
    /\ probe.result = "error"

\* The profile of C3: nothing selected, the code X ignored, no warning.
CuratedProfile(X) ==
    /\ global_options.select = CodeSet({})
    /\ global_options.ignore = CodeSet({X})
    /\ global_options.warn = CodeSet({})

\* C3, as claimed: with select = {}, ignore = {X} and no warn, every code
\* other than X whose message no error_filters pattern matches is 'error'.
C3_CuratedDefaultsToError ==
    \A X \in StatusCodes :
        (Probed /\ CuratedProfile(X) /\ probe.code # X /\ ~ErrorFiltered)
        => probe.result = "error"

\* C3, amended: with select = {}, ignore = {X} and no warn, get_status is
\* suppressed for every code and message; it is with select = ALL and the
\* same ignore and warn that every code other than X is 'error' (suppressed
\* when error_filters match the message).
C3_CuratedSuppressesAll ==
    \A X \in StatusCodes :
        /\ (Probed /\ CuratedProfile(X)) => probe.result = None
        /\ (/\ Probed
            /\ global_options.select = ALL
            /\ global_options.ignore = CodeSet({X})
            /\ global_options.warn = CodeSet({})
            /\ probe.code # X)
           => ErrorUnlessFiltered

\* A code other than the ignored one, no filter: suppressed.
C3_Witness ==
    /\ Probed
    /\ CuratedProfile("name-defined")
    /\ global_options.error_filters = <<>>
    /\ probe.code = "incompatible_arg"
    /\ probe.result = None

\* C4: a code that select does not hold and that ignore covers (ignore is
\* ALL or holds it) is suppressed, whatever warn holds and whatever the
\* message.
C4_IgnoreBeforeWarn ==
    (/\ Probed
     /\ ~(~global_options.select.all /\ probe.code \in global_options.select.codes)
     /\ Covers(global_options.ignore, probe.code))
    => probe.result = None

\* An ignored code that warn holds too, with a message that no
\* warning_filters pattern matches.
C4_Witness ==
    /\ Probed
    /\ ~global_options.select.all
    /\ probe.code \notin global_options.select.codes
    /\ probe.code \in global_options.ignore.codes
    /\ probe.code \in global_options.warn.codes
    /\ global_options.warning_filters = <<>>
    /\ probe.result = None

\* C5: with select = {} and ignore = {}, every code that warn does not
\* cover is suppressed, for every message.
C5_NoOpinionSuppresses ==
    (/\ Probed
     /\ global_options.select = CodeSet({})
     /\ global_options.ignore = CodeSet({})
     /\ ~Covers(global_options.warn, probe.code))
    => probe.result = None

\* Such a call, with no filter of the errors.
C5_Witness ==
    /\ Probed
    /\ global_options.select = CodeSet({})
    /\ global_options.ignore = CodeSet({})
    /\ global_options.warn = CodeSet({"name-defined"})
    /\ global_options.error_filters = <<>>
    /\ probe.code = "incompatible_arg"
    /\ probe.msg = ARG
    /\ probe.result = None

----------------------------------------------------------------------------
(* Claims about the loop of run, under Spec *)

Paths == {PathA, PathX, PathPkgA}

\* The line is path:status:msg or path:lineno:status:msg, and what it has
\* for a path and a status.
Splits(l) == FieldsOf[l].ok
PathOf(l) == FieldsOf[l].filename
PrimaryLine(l) == Splits(l) /\ FieldsOf[l].status = <<"error">>
NoteLine(l) == Splits(l) /\ FieldsOf[l].status = <<"note">>
RevealedLine(l) == NoteLine(l) /\ Head(FieldsOf[l].msg) = "Revealed type is"

\* The one pattern that the model excludes is the glob x.py.
PathExcluded(path) == global_options.exclude # <<>> /\ path = PathX

\* The step is one of the loop: it reads a line.
ReadStep == nread' = nread + 1

\* The loop has read a line and the run has not ended.
HasRead == pc = "read" /\ nread >= 1

OneIf(b) == IF b THEN 1 ELSE 0

\* No configuration: the default global options, no module options.
NoConfiguration == global_options = DefaultOptions /\ module_options = <<>>

\* C2, as claimed: with no configuration, a diagnostic that is the first
\* line of the output is suppressed, and its path then counts 1 filtered,
\* 0 errors and 0 warnings.
C2_DefaultSuppresses ==
    (NoConfiguration /\ HasRead /\ nread = 1 /\ PrimaryLine(line)) =>
        /\ new_status = None
        /\ Count(filtered, PathOf(line)) = 1
        /\ Count(errors, PathOf(line)) = 0
        /\ Count(warnings, PathOf(line)) = 0

\* C2, amended: with no configuration, a diagnostic that is the first line
\* of the output is an error, and its path then counts 1 error, 0 warnings
\* and 0 filtered.
C2_DefaultIsError ==
    (NoConfiguration /\ HasRead /\ nread = 1 /\ PrimaryLine(line)) =>
        /\ new_status = "error"
        /\ Count(errors, PathOf(line)) = 1
        /\ Count(warnings, PathOf(line)) = 0
        /\ Count(filtered, PathOf(line)) = 0

\* The line of the claim, read first with no configuration.
C2_Witness ==
    /\ NoConfiguration
    /\ HasRead
    /\ nread = 1
    /\ line = UntaggedLine
    /\ new_status = "error"
    /\ Count(errors, PathA) = 1

\* C6: a note that is not a 'Revealed type is' note is printed iff the last
\* diagnostic that was classified before it was printed, it is passed as
\* filtered iff that diagnostic was suppressed, it is not classified, and
\* it leaves matched_error as it was.  (last_primary is the last diagnostic
\* of a path that is not excluded: the last diagnostic, when no path of the
\* output is excluded.)
C6_NotesInherit ==
    [][(/\ ReadStep
        /\ NoteLine(line')
        /\ ~RevealedLine(line')
        /\ ~PathExcluded(PathOf(line'))
        /\ last_primary.seen)
       => /\ (emitted' # <<>>) <=> last_primary.emitted
          /\ emitted' # <<>> =>
                /\ Len(emitted') = 1
                /\ emitted'[1].kind = "report"
                /\ emitted'[1].status = "note"
                /\ emitted'[1].is_filtered <=> (last_primary.status = None)
          /\ new_status' = "-"
          /\ matched_error' = matched_error
          /\ last_primary' = last_primary]_vars

\* A diagnostic that was an error, then one that was suppressed and not
\* printed, then a note: the note is not printed.
C6_Witness ==
    /\ HasRead
    /\ nread = 3
    /\ NoteLine(line)
    /\ ~RevealedLine(line)
    /\ ~PathExcluded(PathOf(line))
    /\ DOMAIN errors # {}
    /\ last_primary.seen
    /\ last_primary.status = None
    /\ ~last_primary.emitted
    /\ emitted = <<>>

\* C7: a line that splits and whose path is excluded is not classified,
\* resolves no options, prints nothing, adds 1 to the filtered count of
\* its path and to no other count.
C7_ExcludedOnlyCounted ==
    [][(/\ ReadStep
        /\ Splits(line')
        /\ PathExcluded(PathOf(line')))
       => /\ new_status' = "-"
          /\ cached_options' = cached_options
          /\ emitted' = <<>>
          /\ \A q \in Paths :
                Count(filtered', q) = Count(filtered, q) + OneIf(q = PathOf(line'))
          /\ DOMAIN filtered' \subseteq Paths
          /\ errors' = errors
          /\ warnings' = warnings
          /\ errors_by_type' = errors_by_type]_vars

\* The second line of an excluded path, after a diagnostic of another path.
C7_Witness ==
    /\ HasRead
    /\ Splits(line)
    /\ PathExcluded(PathOf(line))
    /\ Count(filtered, PathX) = 2
    /\ DOMAIN cached_options = {PathA}
    /\ new_status = "-"
    /\ emitted = <<>>

AllCodes == CodeWords \cup {UNKNOWN}

\* C8: a diagnostic of a path that is not excluded adds 1 to one count of
\* its path, the one of its status (error, warning, or filtered for None),
\* adds 1 to the count of its code iff it is an error, and changes no other
\* count.
C8_OneCounterPerDiagnostic ==
    [][(/\ ReadStep
        /\ PrimaryLine(line')
        /\ ~PathExcluded(PathOf(line')))
       => /\ new_status' \in {"error", "warning", None}
          /\ \A q \in Paths :
                /\ Count(errors', q) = Count(errors, q)
                      + OneIf(q = PathOf(line') /\ new_status' = "error")
                /\ Count(warnings', q) = Count(warnings, q)
                      + OneIf(q = PathOf(line') /\ new_status' = "warning")
                /\ Count(filtered', q) = Count(filtered, q)
                      + OneIf(q = PathOf(line') /\ new_status' = None)
          /\ \A c \in AllCodes :
                Count(errors_by_type', c) = Count(errors_by_type, c)
                      + OneIf(c = last_error'.code /\ new_status' = "error")
          /\ DOMAIN errors' \cup DOMAIN warnings' \cup DOMAIN filtered' \subseteq Paths
          /\ DOMAIN errors_by_type' \subseteq AllCodes]_vars

\* A warning after an error of the same path.
C8_Witness ==
    /\ HasRead
    /\ PrimaryLine(line)
    /\ new_status = "warning"
    /\ Count(warnings, PathOf(line)) = 1
    /\ Count(errors, PathOf(line)) = 1
    /\ Count(filtered, PathOf(line)) = 0

\* The code that ends the line: [code] and the newline.
TagOf(l) ==
    IF /\ Len(l) >= 4
       /\ l[Len(l) - 3] = LBRACKET
       /\ l[Len(l) - 2] \in CodeWords
       /\ l[Len(l) - 1] = RBRACKET
       /\ l[Len(l)] = NEWLINE
    THEN l[Len(l) - 2]
    ELSE UNKNOWN

\* select = {"incompatible_arg"} and nothing else configured
SelectsOnlyArg ==
    /\ global_options = [DefaultOptions EXCEPT !.select = CodeSet({"incompatible_arg"})]
    /\ module_options = <<>>

\* C9, as claimed, for its line: with select = {"incompatible_arg"} the
\* line with no code is an error, counted as 1 error of its path and 1 of
\* the code incompatible_arg.
C9_UntaggedIsSelected ==
    (SelectsOnlyArg /\ HasRead /\ nread = 1 /\ line = UntaggedLine) =>
        /\ new_status = "error"
        /\ Count(errors, PathA) = 1
        /\ Count(errors_by_type, "incompatible_arg") = 1

\* C9, amended: the code of a line is the [code] that ends it, and Unknown
\* when no [code] ends it.  With select = {"incompatible_arg"} the line with
\* no code is suppressed, counted as 1 filtered of its path and in no code;
\* the same line ending in [incompatible_arg] is an error, counted as 1
\* error of its path and 1 of its code.
C9_TagOrUnknown ==
    /\ (HasRead /\ Splits(line) /\ ~PathExcluded(PathOf(line))) =>
          /\ last_error.seen
          /\ last_error.code = TagOf(line)
    /\ (SelectsOnlyArg /\ HasRead /\ nread = 1 /\ line = UntaggedLine) =>
          /\ new_status = None
          /\ Count(filtered, PathA) = 1
          /\ Count(errors, PathA) = 0
          /\ DOMAIN errors_by_type = {}
    /\ (SelectsOnlyArg /\ HasRead /\ nread = 1 /\ line = TaggedLine) =>
          /\ new_status = "error"
          /\ Count(errors, PathA) = 1
          /\ Count(errors_by_type, "incompatible_arg") = 1

\* The line of the claim, read first with select = {"incompatible_arg"}.
C9_Witness ==
    /\ SelectsOnlyArg
    /\ HasRead
    /\ nread = 1
    /\ line = UntaggedLine
    /\ last_error.code = UNKNOWN
    /\ new_status = None

ColonCount(l) == Cardinality({i \in 1..Len(l) : l[i] = COLON})

\* C10: a line with fewer than two separators is printed once, as it is,
\* and changes nothing of the state of the run.
C10_UnsplitPrintedVerbatim ==
    [][(ReadStep /\ ColonCount(line') < 2)
       => /\ Len(emitted') = 1
          /\ emitted'[1].kind = "print"
          /\ emitted'[1].msg = line'
          /\ new_status' = "-"
          /\ UNCHANGED <<matched_error, errors_by_type, errors, warnings,
                         filtered, missing_imports, last_error,
                         cached_options, last_primary>>]_vars

\* A line with one separator, read while a diagnostic is open.
C10_Witness ==
    /\ HasRead
    /\ ColonCount(line) = 1
    /\ matched_error.open
    /\ last_error.seen
    /\ Len(emitted) = 1
    /\ emitted[1].msg = line

\* The line is a diagnostic of the input grammar: path:lineno:status:msg or
\* path:status:msg, of status error or note.
MatchesGrammar(l) == PrimaryLine(l) \/ NoteLine(l)

\* C11, as claimed: a line that is not a diagnostic of status error or
\* note, a line with two or more separators and another status among them,
\* is printed once, as it is.
C11_UnmatchedPrintedVerbatim ==
    [][(ReadStep /\ ~MatchesGrammar(line'))
       => /\ Len(emitted') = 1
          /\ emitted'[1].kind = "print"
          /\ emitted'[1].msg = line']_vars

\* An error with no line number and a separator in its message has been
\* read first with no configuration: nothing is printed, nothing counted.
C11_Witness ==
    /\ NoConfiguration
    /\ HasRead
    /\ nread = 1
    /\ line = FoundTwiceLine
    /\ ColonCount(line) >= 2
    /\ FieldsOf[line].status = FOUND_TWICE
    /\ emitted = <<>>
    /\ DOMAIN errors = {}
    /\ DOMAIN filtered = {}

\* run has returned.
Returned == pc = "done"

\* A diagnostic was classified error.
SomeError == Total(errors) > 0

\* C12, as claimed: run returns r for every r above 1; for the other r it
\* returns 0 when no diagnostic was classified error, and a status that is
\* not 0 when one was.
C12_NonZeroOnErrors ==
    Returned =>
        IF proc_wait > 1 THEN exit_status = proc_wait
        ELSE IF SomeError THEN exit_status # 0
        ELSE exit_status = 0

\* C12, amended: run returns r for every r above 1; for the other r it
\* returns 0 when no diagnostic was classified error, and r itself when one
\* was: 1 for r = 1, and 0 for r = 0.
C12_UpstreamOnErrors ==
    Returned =>
        IF proc_wait > 1 THEN exit_status = proc_wait
        ELSE IF SomeError THEN exit_status = proc_wait
        ELSE exit_status = 0

\* mypy returned 1 and the diagnostics were a warning and a suppressed one:
\* run returns 0.
C12_Witness ==
    /\ Returned
    /\ proc_wait = 1
    /\ ~SomeError
    /\ Total(warnings) > 0
    /\ Total(filtered) > 0
    /\ exit_status = 0

\* The step in which run leaves its loop and returns.
FinishStep == pc = "read" /\ pc' = "done"

\* The line l printed as an error that is not filtered.
AsError(l) ==
    report(global_options, FieldsOf[l].filename, FieldsOf[l].lineno, "error",
           FieldsOf[l].msg, FALSE)

\* What run prints after the statistics, and what it leaves alone.
AfterStats == Tail(emitted')
CountersKept == UNCHANGED <<errors, warnings, filtered, errors_by_type>>

\* C13, as claimed: when mypy returns a status above 1, run prints the
\* banner and then the last line of the output that was a diagnostic (an
\* error or a note), as an error that is not filtered, whatever it was
\* classified; it changes no counter and returns the status.  For a status
\* of 0 or 1 it prints neither.
C13_LastDiagnosticEchoed ==
    [][FinishStep =>
        /\ CountersKept
        /\ proc_wait' > 1 =>
              /\ exit_status' = proc_wait'
              /\ AfterStats = <<Banner>> \o
                    (IF last_diagnostic # <<>>
                     THEN <<AsError(last_diagnostic)>> ELSE <<>>)
        /\ proc_wait' <= 1 => AfterStats = <<>>]_vars

\* C13, amended: the line that run keeps for a status above 1 is the last
\* line that split (path:lineno:status:msg or path:status:msg, of any
\* status) and whose path is not excluded: every such line replaces it and
\* no other line changes it.  When mypy returns a status above 1, run prints
\* the banner and then that line, when there is one, as an error that is
\* not filtered, whatever its status and whatever it was classified; it
\* changes no counter and returns the status.  For a status of 0 or 1 it
\* prints neither.
C13_LastSplitLineEchoed ==
    [][/\ ReadStep =>
            last_error' =
              IF Splits(line') /\ ~PathExcluded(PathOf(line'))
              THEN Last(FieldsOf[line'].filename, FieldsOf[line'].lineno,
                        FieldsOf[line'].msg, TagOf(line'))
              ELSE last_error
       /\ FinishStep =>
            /\ CountersKept
            /\ last_error' = last_error
            /\ proc_wait' > 1 =>
                  /\ exit_status' = proc_wait'
                  /\ AfterStats = <<Banner>> \o
                        (IF last_error.seen
                         THEN <<report(global_options, last_error.filename,
                                       last_error.lineno, "error",
                                       last_error.msg, FALSE)>>
                         ELSE <<>>)
            /\ proc_wait' <= 1 => AfterStats = <<>>]_vars

\* mypy returned 2 after a diagnostic of a.py that was suppressed and not
\* printed and then a diagnostic of the excluded x.py: the one of a.py is
\* printed as an error.
C13_Witness ==
    /\ Returned
    /\ proc_wait = 2
    /\ exit_status = 2
    /\ nread >= 2
    /\ PrimaryLine(line)
    /\ PathExcluded(PathOf(line))
    /\ last_diagnostic = line
    /\ last_primary.seen
    /\ last_primary.status = None
    /\ ~last_primary.emitted
    /\ Len(emitted) = 3
    /\ emitted[2] = Banner
    /\ emitted[3].filename = PathA
    /\ emitted[3].status = "error"
    /\ ~emitted[3].is_filtered

\* The step reads a note of a path that is not excluded, not a 'Revealed
\* type is' note, right after a diagnostic of an excluded path, and the last
\* diagnostic classified before that one was printed: it was open.
NoteAfterExcluded ==
    /\ ReadStep
    /\ nread >= 2
    /\ PrimaryLine(line)
    /\ PathExcluded(PathOf(line))
    /\ last_primary.seen
    /\ last_primary.emitted
    /\ NoteLine(line')
    /\ ~RevealedLine(line')
    /\ ~PathExcluded(PathOf(line'))

\* C19, as claimed: a diagnostic of an excluded path closes the diagnostic
\* that was open: the note of a path that is not excluded that comes right
\* after it is not printed.
C19_ExcludedClosesDiagnostic ==
    [][NoteAfterExcluded => emitted' = <<>>]_vars

\* C20: a diagnostic of a path that is not excluded is printed iff it is
\* an error or a warning or show_ignored is set; it is printed once, as
\* filtered (and marked so) iff it is suppressed.  Its status is what
\* get_status gives for either value of show_ignored, and the counters
\* change as that status says, whatever show_ignored is.
C20_PrintedUnlessSuppressed ==
    [][(/\ ReadStep
        /\ PrimaryLine(line')
        /\ ~PathExcluded(PathOf(line')))
       => /\ (emitted' # <<>>) <=>
                (new_status' \in {"error", "warning"} \/ global_options.show_ignored)
          /\ Len(emitted') <= 1
          /\ emitted' # <<>> =>
                /\ emitted'[1].kind = "report"
                /\ emitted'[1].filename = PathOf(line')
                /\ emitted'[1].msg = FieldsOf[line'].msg
                /\ emitted'[1].is_filtered <=> (new_status' = None)
                /\ emitted'[1].marked <=> (new_status' = None)
          /\ \A shw \in BOOLEAN :
                new_status' =
                  get_status([OptionsAt(resolved') EXCEPT !.show_ignored = shw],
                             TagOf(line'), FieldsOf[line'].msg)
          /\ Total(errors') = Total(errors) + OneIf(new_status' = "error")
          /\ Total(warnings') = Total(warnings) + OneIf(new_status' = "warning")
          /\ Total(filtered') = Total(filtered) + OneIf(new_status' = None)
          /\ Total(errors_by_type') = Total(errors_by_type)
                                        + OneIf(new_status' = "error")]_vars

\* A suppressed diagnostic printed, and marked, under show_ignored.
C20_Witness ==
    /\ HasRead
    /\ PrimaryLine(line)
    /\ ~PathExcluded(PathOf(line))
    /\ global_options.show_ignored
    /\ new_status = None
    /\ Len(emitted) = 1
    /\ emitted[1].is_filtered
    /\ emitted[1].marked
    /\ Count(filtered, PathOf(line)) = 1

----------------------------------------------------------------------------
(* Claims about get_options, under SpecProfiles *)

\* The step reads a line that splits, of a path that is not excluded: it
\* calls get_options for the path.
ResolveStep == ReadStep /\ Splits(line') /\ ~PathExcluded(PathOf(line'))

\* A section named active was read, and files were named to run.
ActiveRegistered == \E n \in DOMAIN module_options : module_options[n].name = "active"
FileListed(path) == \E n \in DOMAIN active_files : active_files[n] = path

\* C16, as claimed: with a section named active and a list of files, every
\* file of the list gets the options of the section named active, whatever
\* the other sections and their order.
C16_ListedFilesAreActive ==
    [][(ResolveStep /\ ActiveRegistered /\ FileListed(PathOf(line')))
       => /\ resolved' \in DOMAIN module_options
          /\ module_options[resolved'].name = "active"]_vars

\* The file a.py was listed and [mypyrun-tests], which includes a.py, was
\* read before [mypyrun-active]: a.py has the options of tests.
C16_Witness ==
    /\ HasRead
    /\ ActiveRegistered
    /\ FileListed(PathA)
    /\ PathOf(line) = PathA
    /\ Splits(line)
    /\ resolved \in DOMAIN module_options
    /\ module_options[resolved].name = "tests"

\* The globs of the sections of the model have no wildcard: such a glob
\* includes the paths that end with it.
Includes(n, path) ==
    \E k \in DOMAIN module_options[n].options.include :
        LET glob == module_options[n].options.include[k].toks IN
        /\ Len(glob) <= Len(path)
        /\ SubSeq(path, Len(path) - Len(glob) + 1, Len(path)) = glob

\* The first section, in the order of module_options, that includes path: 0,
\* the global options, when none does.
FirstSection(path) ==
    IF \E n \in DOMAIN module_options : Includes(n, path)
    THEN CHOOSE n \in DOMAIN module_options :
            /\ Includes(n, path)
            /\ \A k \in 1..(n - 1) : ~Includes(k, path)
    ELSE 0

\* C17: in a run, every call of get_options for a path, whether the path is
\* in the cache or not, returns the first section in the order of
\* module_options that includes the path, the global options when none
\* does; what the cache holds for a path is what the call returns, so that
\* a second call for the path returns the same options.
C17_FirstSectionEveryCall ==
    [][/\ ResolveStep =>
            /\ resolved' = FirstSection(PathOf(line'))
            /\ PathOf(line') \in DOMAIN cached_options
                  => resolved' = cached_options[PathOf(line')]
            /\ PathOf(line') \in DOMAIN cached_options'
            /\ cached_options'[PathOf(line')] = resolved'
            /\ \A q \in DOMAIN cached_options :
                  q \in DOMAIN cached_options' /\ cached_options'[q] = cached_options[q]
       /\ pc = "read" => module_options' = module_options]_vars

\* Three diagnostics of a.py, which the first and the second section both
\* include: each one has the options of the first.
C17_Witness ==
    /\ HasRead
    /\ nread = 3
    /\ global_options.exclude = <<>>
    /\ Total(errors) + Total(warnings) + Total(filtered) = 3
    /\ DOMAIN cached_options = {PathA}
    /\ Len(module_options) >= 2
    /\ Includes(1, PathA)
    /\ Includes(2, PathA)
    /\ resolved = 1
    /\ cached_options[PathA] = 1

----------------------------------------------------------------------------
(* Claims about main, under SpecMain *)

\* The step in which main exits or calls run.
MainStep == pc = "main" /\ pc' # "main"

\* main has exited with status before run was called: mypy was not started
\* and no line was read.
ExitedBeforeRun(status) ==
    /\ pc = "exit"
    /\ exit_status = status
    /\ nread = 0
    /\ emitted = <<>>
    /\ proc_wait = -1
    /\ cached_options = EmptyDict
    /\ stale_options = EmptyDict

\* No step follows an exit.
ExitIsFinal == pc = "exit" => UNCHANGED vars

InSeq(x, seq) == \E n \in DOMAIN seq : seq[n] = x

\* The options that the model knows, the entries of the sources, and the
\* entries of each kind that is not a well-formed option.
KnownKeys == {"select", "ignore", "warn", "include", "exclude",
              "show_ignored", "add_missing_imports"}
BooleanWords == {"yes", "true", "no", "false"}

FileSections == <<config_file.global>> \o
                [n \in DOMAIN config_file.sections |-> config_file.sections[n].entries]
FileEntries == UNION {{FileSections[n][k] : k \in DOMAIN FileSections[n]} :
                        n \in DOMAIN FileSections}
JsonEntries == {environ[n] : n \in DOMAIN environ}

UnknownEntry(e) == e.key \notin KnownKeys
BadBoolean(e) ==
    /\ e.key \in {"show_ignored", "add_missing_imports"}
    /\ ~(Len(e.value) = 1 /\ e.value[1] \in BooleanWords)
\* A number where the option is a list of codes or of globs
BadJsonList(e) ==
    /\ e.key \in {"select", "ignore", "warn", "include", "exclude"}
    /\ e.type = "int"

JsonRaises == \E e \in JsonEntries : BadJsonList(e)

\* A section of the file, of any name in a name list, is named name.
SectionNamed(name) ==
    \E n \in DOMAIN config_file.sections :
        InSeq(name, config_file.sections[n].name)

SelectsAndIgnores(options) ==
    /\ ~options.select.all
    /\ ~options.ignore.all
    /\ options.select.codes \cap options.ignore.codes # {}

\* C14, as claimed: when run is called, and from then on, neither the
\* global options nor the options of any section select and ignore the
\* same code.
C14_EveryProfileDisjoint ==
    pc \in {"start", "read", "done"} =>
        /\ ~SelectsAndIgnores(global_options)
        /\ \A n \in DOMAIN module_options :
              ~SelectsAndIgnores(module_options[n].options)

\* A diagnostic of a.py classified by the options of [mypyrun-tests], which
\* select and ignore name-defined: it is an error.
C14_Witness ==
    /\ HasRead
    /\ PrimaryLine(line)
    /\ resolved = 1
    /\ module_options[1].name = "tests"
    /\ SelectsAndIgnores(module_options[1].options)
    /\ last_error.code \in module_options[1].options.ignore.codes
    /\ new_status = "error"

WellFormed(entries) == SelectSeq(entries, LAMBDA e : ~UnknownEntry(e) /\ ~BadBoolean(e))
CleanFile ==
    [global |-> WellFormed(config_file.global),
     sections |-> [n \in DOMAIN config_file.sections |->
                      [name |-> config_file.sections[n].name,
                       entries |-> WellFormed(config_file.sections[n].entries)]]]
CleanJson == SelectSeq(environ, LAMBDA e : ~UnknownEntry(e))

\* What main prints about an entry of the sources.
EntryMessages ==
    {reported[n] : n \in {k \in DOMAIN reported :
        reported[k].what \in {"Unrecognized option", "Not a boolean"}}}

----------------------------------------------------------------------------
(* Claims about the notes that follow no diagnostic, under Spec *)

\* The step reads a note of a path that is not excluded while
\* matched_error is None: no diagnostic is open.
OrphanNote ==
    /\ ReadStep
    /\ NoteLine(line')
    /\ ~PathExcluded(PathOf(line'))
    /\ ~matched_error.open

CountersUnchanged ==
    /\ errors' = errors
    /\ warnings' = warnings
    /\ filtered' = filtered
    /\ errors_by_type' = errors_by_type

\* C21: a note of a path that is not excluded, read while matched_error is
\* None, changes no counter and leaves matched_error None; it prints
\* nothing, unless its message starts with 'Revealed type is': then it is
\* printed once, as a note, not filtered and not marked, whatever select,
\* ignore, warn and show_ignored are.
C21_OrphanNoteDropped ==
    [][OrphanNote
       => /\ CountersUnchanged
          /\ matched_error' = matched_error
          /\ new_status' = "-"
          /\ IF StartsWith(FieldsOf[line'].msg, REVEALED_TYPE)
             THEN /\ Len(emitted') = 1
                  /\ emitted'[1].kind = "report"
                  /\ emitted'[1].filename = PathOf(line')
                  /\ emitted'[1].status = "note"
                  /\ emitted'[1].msg = FieldsOf[line'].msg
                  /\ ~emitted'[1].is_filtered
                  /\ ~emitted'[1].marked
             ELSE emitted' = <<>>]_vars

\* A 'Revealed type is' note right after a diagnostic that was suppressed
\* and not printed, under a configuration that shows nothing of its own:
\* the note is printed.  And under show_ignored, the first line of the
\* output.
C21_Witness ==
    /\ HasRead
    /\ nread = 2
    /\ RevealedLine(line)
    /\ ~global_options.show_ignored
    /\ ~global_options.select.all
    /\ last_primary.seen
    /\ last_primary.status = None
    /\ ~matched_error.open
    /\ Len(emitted) = 1
    /\ ~emitted[1].is_filtered
    /\ Total(filtered) = 1

----------------------------------------------------------------------------
(* Claims about the warnings of get_status, under SpecStatus *)

\* The message of the call matches a pattern of warning_filters.
WarningFiltered == \E n \in 1..Len(global_options.warning_filters) :
                      RegexSearch(global_options.warning_filters[n], probe.msg)

\* C22: a code that a concrete select does not hold, that a concrete ignore
\* does not hold, and that warn covers (warn is ALL or holds it) is
\* 'warning' when no warning_filters pattern matches the message and
\* suppressed when one does; the result is the same whatever
\* error_filters are.
C22_WarnUnlessFiltered ==
    (/\ Probed
     /\ ~global_options.select.all
     /\ probe.code \notin global_options.select.codes
     /\ ~global_options.ignore.all
     /\ probe.code \notin global_options.ignore.codes
     /\ Covers(global_options.warn, probe.code))
    => /\ probe.result = (IF WarningFiltered THEN None ELSE "warning")
       /\ \A ef \in {<<>>, <<FILTER_CANNOT_FIND>>, <<FILTER_NOT_DEFINED>>} :
             get_status([global_options EXCEPT !.error_filters = ef],
                        probe.code, probe.msg) = probe.result

\* A warning whose message a pattern of error_filters matches and no
\* pattern of warning_filters does.
C22_Witness ==
    /\ Probed
    /\ global_options.select = CodeSet({"incompatible_arg"})
    /\ global_options.ignore = CodeSet({})
    /\ global_options.warn = CodeSet({"name-defined"})
    /\ global_options.warning_filters = <<FILTER_NOT_DEFINED>>
    /\ probe.code = "name-defined"
    /\ ErrorFiltered
    /\ ~WarningFiltered
    /\ probe.result = "warning"

----------------------------------------------------------------------------
(* Claims about _cached_options, under SpecLibrary *)

\* The options that get_options returned in the last step.
ResolvedOptions ==
    IF resolved = STALE THEN stale_options[PathOf(line)] ELSE OptionsAt(resolved)

\* C23, as claimed: in every call of run, the options that get_options
\* returns for a path are the ones that the module_options of that call
\* give it: those of the first section that includes the path, the global
\* options when none does.  (A step of the loop leaves global_options and
\* module_options as they are.)
C23_CachePerRun ==
    [][ResolveStep
       => ResolvedOptions' =
             OptionsAt(FirstIncluding(PathOf(line'), module_options))]_vars

\* A second call of run, with no module_options, after a call whose
\* [mypyrun-tests] included a.py and selected one code: an error of
\* another code in a.py is suppressed, as that section has it, where the
\* global options of the call make it an error.
C23_Witness ==
    /\ HasRead
    /\ module_options = <<>>
    /\ PathOf(line) = PathA
    /\ PrimaryLine(line)
    /\ resolved = STALE
    /\ stale_options[PathA] = TestsOptions
    /\ new_status = None
    /\ get_status(global_options, FieldsOf[line].error_code, FieldsOf[line].msg) = "error"

----------------------------------------------------------------------------
(* Claims about the include of [mypyrun-active], under SpecProfiles *)

\* get_options returned the options of the section named active.
ResolvedActive ==
    /\ resolved \in DOMAIN module_options
    /\ module_options[resolved].name = "active"

\* C24, as claimed: with a list of files, a path gets the options of the
\* section named active only if it is one of the files of the list.
C24_ActiveIncludeIsExact ==
    [][(ResolveStep /\ active_files # <<>> /\ ResolvedActive')
       => FileListed(PathOf(line'))]_vars

\* a.py was listed, and a line of pkg/a.py gets the options of
\* [mypyrun-active]: the pattern made of a.py is found at its end.
C24_Witness ==
    /\ HasRead
    /\ active_files = <<PathA>>
    /\ PathOf(line) = PathPkgA
    /\ ResolvedActive
    /\ module_options[resolved].options.include = <<_glob_to_regex(PathA)>>
    /\ PrimaryLine(line)
    /\ new_status = get_status(ActiveOptions, FieldsOf[line].error_code, FieldsOf[line].msg)
    /\ new_status # get_status(global_options, FieldsOf[line].error_code, FieldsOf[line].msg)

----------------------------------------------------------------------------
(* Claims about the counters of run, under Spec *)

\* The diagnostics that the counters of the paths hold.
Accounted == Total(errors) + Total(warnings) + Total(filtered)

\* The lines that the loop counts: the diagnostics of the paths that are not
\* excluded, and every line that splits of the paths that are.
Counted(l) ==
    /\ Splits(l)
    /\ PathExcluded(PathOf(l)) \/ PrimaryLine(l)

\* C25: the three counters of the paths start at 0 and every line that is
\* read adds 1 to their sum when it is a diagnostic of a path that is not
\* excluded or a line that splits, of any status, of an excluded path, and
\* nothing when it is not: after every line their sum is the number of
\* such lines read.  The counts of the codes add up to the errors of the
\* paths.  A note, and a line of any other status, of a path that is not
\* excluded changes no counter.
C25_Accounting ==
    [][/\ ReadStep =>
            /\ Accounted' = Accounted + OneIf(Counted(line'))
            /\ (Splits(line') /\ ~PathExcluded(PathOf(line')) /\ ~PrimaryLine(line'))
                  => CountersUnchanged
       /\ nread' = 0 => Accounted' = 0
       /\ Total(errors_by_type') = Total(errors')]_vars

\* An error of a.py and then a note of x.py, which is excluded: two lines
\* are counted, one of them an error.
C25_Witness ==
    /\ HasRead
    /\ nread = 2
    /\ NoteLine(line)
    /\ PathExcluded(PathOf(line))
    /\ Count(filtered, PathX) = 1
    /\ Total(errors) = 1
    /\ Total(errors_by_type) = 1
    /\ Accounted = 2

----------------------------------------------------------------------------
(* Claims about the imports that run adds, under SpecImports *)

\* The line is an error of the code name-defined that names a name of
\* typing.
NamesTyping(l) ==
    /\ PrimaryLine(l)
    /\ TagOf(l) = "name-defined"
    /\ \E i \in 1..(Len(l) - 2) :
          /\ l[i] = NAME_OPEN
          /\ l[i + 1] \in EXTRA_TYPING_TYPES
          /\ l[i + 2] = NAME_CLOSE

\* The line is a note that suggests an import from typing.
SuggestsImport(l) ==
    /\ NoteLine(l)
    /\ \E i \in 1..(Len(l) - 2) :
          /\ l[i] = FROM_TYPING_IMPORT
          /\ l[i + 1] = SPACE
          /\ l[i + 2] \in Identifiers

\* C26: add_typing_imports is called only when the output of mypy has
\* ended, only under the global add_missing_imports, and only for the files
\* of missing_imports; a file comes into missing_imports only when a line
\* is read whose path it is, a path that is not excluded, and the line is
\* a name-defined error that names a name of typing or a note that
\* suggests an import while matched_error is not None.  Without
\* add_missing_imports it is called for no file, whatever was read.
C26_ImportsOnRequest ==
    [][/\ imports_added' # imports_added
            => /\ FinishStep
               /\ global_options.add_missing_imports
               /\ imports_added' = DOMAIN missing_imports
       /\ \A path \in DOMAIN missing_imports' \ DOMAIN missing_imports :
            /\ ReadStep
            /\ path = PathOf(line')
            /\ ~match(global_options.exclude, path)
            /\ \/ NamesTyping(line')
               \/ SuggestsImport(line') /\ matched_error.open
       /\ (pc' = "read" /\ nread' = 0) => missing_imports' = EmptyDict
       /\ pc' # "done" => imports_added' = {}
       /\ ~global_options.add_missing_imports' => imports_added' = {}]_vars

\* With add_missing_imports and name-defined ignored: no error was counted
\* and the imports of a.py are added when the output has ended.
C26_Witness ==
    /\ pc = "done"
    /\ global_options.add_missing_imports
    /\ global_options.ignore = CodeSet({"name-defined"})
    /\ Total(errors) = 0
    /\ Total(filtered) >= 1
    /\ missing_imports = (PathA :> {"List"})
    /\ imports_added = {PathA}

====
